---- MODULE Spec2Model ----
(***************************************************************************)
(* QuickBooksConnector (src/src/connectors/quickbooks.py): the OAuth token  *)
(* lifecycle and the authenticated request executor, as a state machine.    *)
(* The connector is one shared object; every coroutine running one of its   *)
(* async methods is a task that gives up control only at an await of a      *)
(* network call, so each action below runs from one await to the next.      *)
(***************************************************************************)
EXTENDS Integers, Sequences, FiniteSets, TLC

VARIABLES
    access_token,   \* self.access_token  (Optional[str])
    refresh_token,  \* self.refresh_token (Optional[str])
    realm_id,       \* self.realm_id      (Optional[str])
    token_expiry,   \* self.token_expiry  (Optional[datetime])
    token_file,     \* the content of TOKEN_FILE
    now,            \* datetime.utcnow()
    task,           \* the coroutines using the connector, and what each did
    disconnect_raised, \* the latest disconnect ended in an exception
    qb_connector    \* main.qb_connector: the connector, or None

vars == <<access_token, refresh_token, realm_id, token_expiry, token_file, now,
          task, disconnect_raised, qb_connector>>

creds == <<access_token, refresh_token, realm_id, token_expiry>>

(***************************************************************************)
(* Bounds of the model.                                                    *)
(***************************************************************************)
MaxNow == 60
TickStep == 60

\* The coroutines that use the connector: "a" in every specification, "b"
\* beside it in SpecConcurrent.
Tasks == {"a", "b"}

(***************************************************************************)
(* Values.                                                                 *)
(***************************************************************************)
None == "None"           \* Python None, for the Optional[str] fields
NoExpiry == <<>>         \* Python None, for the Optional[datetime] field
JsonNull == <<>>         \* JSON null in the token_expiry slot of the file
NoFile == <<>>           \* TOKEN_FILE does not exist
CorruptFile == <<"corrupt">>  \* TOKEN_FILE exists and is not valid JSON

AccessTokens == {"AT1", "AT2"}
RefreshTokens == {"RT1", "RT2"}
RealmIds == {"R1", "R2"}
ExpiresInValues == {30}
ResourceStatuses == {200, 401, 500}
ResourceTexts == {"B1", "B2"}     \* response.text of the resource API
TokenStatuses == {200, 400}
TokenErrorTexts == {"invalid_grant", "server_error"}  \* response.text
SaveOutcomes == {"ok", "write_fails"}
Connector == "QuickBooksConnector"  \* qb_connector holds the connector

DefaultExpiresIn == 3600
SafetyMargin == 60

\* dict.get(k, default)
Get(d, k, default) == IF k \in DOMAIN d THEN d[k] ELSE default

\* bool(x) of an Optional[str]: None is falsy (the empty string is not among
\* the values of the model).
Truthy(x) == x # None

Field(k, vals) == {<<>>} \cup {(k :> v) : v \in vals}

\* response.json() of a 200 answer of the token endpoint: any of the three
\* fields the connector reads may be missing.
TokenBodies ==
    { a @@ r @@ e : a \in Field("access_token", AccessTokens),
                    r \in Field("refresh_token", RefreshTokens),
                    e \in Field("expires_in", ExpiresInValues) }

\* An answer of the token endpoint: a 200 with its parsed body, or another
\* status with its text.
TokenResponses ==
    { [status_code |-> 200, json |-> b, text |-> "json"] : b \in TokenBodies }
      \cup { [status_code |-> s, json |-> <<>>, text |-> x] :
                 s \in TokenStatuses \ {200}, x \in TokenErrorTexts }

\* An answer of the resource API.
ResourceResponses ==
    { [status_code |-> s, text |-> x] :
         s \in ResourceStatuses, x \in ResourceTexts }

\* response.json(): the dict the text of the response denotes.
json(text) == <<"dict", text>>

(***************************************************************************)
(* Logging. The module logs through logging.getLogger(__name__), and        *)
(* main.py sets the root level with logging.basicConfig(level=logging.INFO) *)
(* so the logger is enabled for INFO, WARNING and ERROR. An enabled         *)
(* Logger.info/warning/error(msg, **kwargs) passes kwargs on to             *)
(* Logger._log, which takes no keyword but exc_info, extra, stack_info and  *)
(* stacklevel: any other keyword makes the call raise TypeError.            *)
(***************************************************************************)
EnabledLevels == {"INFO", "WARNING", "ERROR"}

LogRaises(level, kwargs) == level \in EnabledLevels /\ kwargs # {}

(***************************************************************************)
(* Exceptions: the class, and the status code and the response text its     *)
(* message holds (<<>> when it holds none).                                 *)
(***************************************************************************)
NoException == [type |-> "none", status |-> <<>>, body |-> <<>>]

\* The TypeError of a logging call; its message names the keyword.
LogTypeError == [type |-> "TypeError", status |-> <<>>, body |-> <<>>]

\* QuickBooksError(f"...{response.text}"), with the status code where the
\* message formats it in.
QuickBooksError(status, body) ==
    [type |-> "QuickBooksError", status |-> status, body |-> body]

\* logger.<level>(msg, **kwargs) followed by raise exc: what is raised.
LogThenRaise(level, kwargs, exc) ==
    IF LogRaises(level, kwargs) THEN LogTypeError ELSE exc

(***************************************************************************)
(* Properties of the connector.                                            *)
(***************************************************************************)
IsAuthenticated(at, realm) == Truthy(at) /\ Truthy(realm)

is_authenticated == IsAuthenticated(access_token, realm_id)

IsTokenExpired(expiry, clock) ==
    IF expiry = NoExpiry THEN TRUE ELSE clock >= expiry[1]

is_token_expired == IsTokenExpired(token_expiry, now)

\* datetime.utcnow() + timedelta(seconds=expires_in - 60)
ComputeExpiry(body, clock) ==
    <<clock + (Get(body, "expires_in", DefaultExpiresIn) - SafetyMargin)>>

(***************************************************************************)
(* Token storage.                                                          *)
(***************************************************************************)
\* datetime.isoformat() and datetime.fromisoformat()
isoformat(expiry) == <<"iso", expiry[1]>>
fromisoformat(s) == <<s[2]>>

\* _save_tokens: the file after the call. open(TOKEN_FILE, "w") truncates
\* the file, so a write that fails leaves a file that is not valid JSON; the
\* exception is caught, and the handler logs it.
SaveTokens(at, rt, realm, expiry, outcome) ==
    IF outcome = "ok"
    THEN <<"json", [access_token |-> at,
                    refresh_token |-> rt,
                    realm_id |-> realm,
                    token_expiry |-> IF expiry # NoExpiry
                                     THEN isoformat(expiry) ELSE JsonNull]>>
    ELSE CorruptFile

\* _save_tokens raises: the handler of line 378 logs the failed write with
\* logger.error("Failed to save tokens", error=str(e)).
SaveRaises(outcome) == outcome # "ok" /\ LogRaises("ERROR", {"error"})

\* _load_tokens on a connector whose four fields __init__ has just set to
\* None: the four fields after the call, and whether the call raised. With
\* no file nothing is done. A file that is not valid JSON makes json.load
\* raise, and the handler of line 394 logs it with
\* logger.warning("Failed to load tokens", error=str(e)). A valid file sets
\* the fields and is then logged with
\* logger.info("Tokens loaded successfully", realm_id=...), inside the try.
LoadTokens(file) ==
    IF file = NoFile
    THEN <<None, None, None, NoExpiry, FALSE>>
    ELSE IF file = CorruptFile
    THEN <<None, None, None, NoExpiry, LogRaises("WARNING", {"error"})>>
    ELSE LET d == file[2]
             expiry_str == Get(d, "token_expiry", JsonNull)
         IN  <<Get(d, "access_token", None),
               Get(d, "refresh_token", None),
               Get(d, "realm_id", None),
               IF expiry_str # JsonNull THEN fromisoformat(expiry_str) ELSE NoExpiry,
               LogRaises("INFO", {"realm_id"}) /\ LogRaises("WARNING", {"error"})>>

(***************************************************************************)
(* Tasks. pc is the await the coroutine is suspended at; headers_token,     *)
(* data_refresh_token, realm_arg and token_data are its locals; the other   *)
(* fields record what the call observed and did, and only the properties    *)
(* read them.                                                               *)
(***************************************************************************)
NoTokenData == <<>>

IdleTask ==
    [pc |-> "idle",
     op |-> "none",
     headers_token |-> None,       \* the token in headers["Authorization"]
     data_refresh_token |-> None,  \* data["refresh_token"] of the refresh
     realm_arg |-> None,           \* the realm_id argument of the exchange
     token_data |-> NoTokenData,   \* <<response.json()>> of the latest 200
     result |-> "none",            \* where the call ended
     exc |-> NoException,          \* the exception that ended it, if any
     value |-> <<>>,               \* the dict api_request returned
     entry |-> "none",             \* the token as api_request found it
     refreshes |-> 0,              \* calls of refresh_access_token made
     token_calls |-> 0,            \* POSTs to the token endpoint
     resource_calls |-> 0,         \* requests to the resource API
     calls_before_refresh |-> 0,   \* resource_calls when the first POST went
     refreshes_before_response |-> 0,    \* refreshes at the first response
     token_calls_before_response |-> 0,  \* token_calls at the first response
     first_status |-> 0,           \* status of the first resource response
     last_status |-> 0]            \* status of the latest resource response

\* The token as api_request finds it: not expired, expired with a refresh
\* token held, or expired with none.
EntryState ==
    IF ~is_token_expired THEN "fresh"
    ELSE IF Truthy(refresh_token) THEN "expired_rt" ELSE "expired_no_rt"

\* The call is over: its locals are gone, its result and record remain.
Ended(r, result) ==
    [r EXCEPT !.pc = "done", !.result = result,
              !.headers_token = None, !.data_refresh_token = None,
              !.realm_arg = None]

\* The call is over, ended by the exception exc.
Raise(r, result, exc) == [Ended(r, result) EXCEPT !.exc = exc]

Init ==
    /\ access_token = None
    /\ refresh_token = None
    /\ realm_id = None
    /\ token_expiry = NoExpiry
    /\ token_file = NoFile
    /\ now = 0
    /\ task = [t \in Tasks |-> IdleTask]
    /\ disconnect_raised = FALSE
    /\ qb_connector = Connector

(***************************************************************************)
(* refresh_access_token.                                                   *)
(***************************************************************************)
\* BeginRefresh without the check of lines 158-159.
BeginRefreshUnchecked(r, waitpc) ==
    [r EXCEPT !.pc = waitpc,
              !.data_refresh_token = refresh_token,
              !.refreshes = @ + 1,
              !.token_calls = @ + 1,
              !.calls_before_refresh =
                  IF r.token_calls = 0 THEN r.resource_calls ELSE @]

\* Lines 158-180, up to the await of the POST: the task r after them, parked
\* at waitpc when the POST went out.
BeginRefresh(r, waitpc) ==
    IF ~Truthy(refresh_token)
    THEN Raise([r EXCEPT !.refreshes = @ + 1], "NoRefreshToken",
               QuickBooksError(<<>>, <<>>))
    ELSE [r EXCEPT !.pc = waitpc,
                   !.data_refresh_token = refresh_token,
                   !.refreshes = @ + 1,
                   !.token_calls = @ + 1,
                   !.calls_before_refresh =
                       IF r.token_calls = 0 THEN r.resource_calls ELSE @]

\* RefreshedRefreshToken with exchange's token_data.get("refresh_token").
RefreshedRefreshTokenNoDefault(body, current) ==
    Get(body, "refresh_token", None)

\* token_data.get("refresh_token", self.refresh_token)
RefreshedRefreshToken(body, current) == Get(body, "refresh_token", current)

\* RefreshStore reading realm_id from the response, as it reads the tokens.
RefreshStoreReadsRealm(body, outcome) ==
    /\ access_token' = Get(body, "access_token", None)
    /\ refresh_token' = RefreshedRefreshToken(body, refresh_token)
    /\ token_expiry' = ComputeExpiry(body, now)
    /\ realm_id' = Get(body, "realm_id", None)
    /\ token_file' = SaveTokens(access_token', refresh_token', realm_id',
                                token_expiry', outcome)

\* Lines 190-199: the assignments after a 200 answer, and _save_tokens.
RefreshStore(body, outcome) ==
    /\ access_token' = Get(body, "access_token", None)
    /\ refresh_token' = RefreshedRefreshToken(body, refresh_token)
    /\ token_expiry' = ComputeExpiry(body, now)
    /\ realm_id' = realm_id
    /\ token_file' = SaveTokens(access_token', refresh_token', realm_id',
                                token_expiry', outcome)

\* Lines 182-188: the token endpoint answered other than 200.
RefreshFailed(r, resp) ==
    Raise(r, "RefreshFailed",
          LogThenRaise("ERROR", {"status_code", "response"},
                       QuickBooksError(<<>>, <<resp.text>>)))

\* Lines 190-203 are over: token_data is the parsed 200 answer.
Refreshed(r, body) ==
    [r EXCEPT !.token_data = <<body>>, !.data_refresh_token = None]

\* Lines 199-203: refresh_access_token returns token_data unless
\* _save_tokens or logger.info("Successfully refreshed ...") raises.
RefreshReturns(outcome) == ~SaveRaises(outcome) /\ ~LogRaises("INFO", {})

\* refresh_access_token stored the tokens and then raised, and the
\* exception leaves api_request.
RefreshRaised(r, body) == Raise(Refreshed(r, body), "SaveFailed", LogTypeError)

(***************************************************************************)
(* api_request.                                                            *)
(***************************************************************************)
\* NeedsRefresh without the expiry check.
NeedsRefreshWheneverHeld(expiry, clock, rt) == Truthy(rt)

\* _ensure_valid_token's condition
NeedsRefresh(expiry, clock, rt) == IsTokenExpired(expiry, clock) /\ Truthy(rt)

\* Lines 231-249: the authentication check, the headers and the first
\* request, with the credential set as it is when control reaches them.
SendRequest(r, at, realm) ==
    IF ~Truthy(at) \/ ~Truthy(realm)
    THEN Raise(r, "NotAuthenticated", QuickBooksError(<<>>, <<>>))
    ELSE [r EXCEPT !.pc = "call1",
                   !.headers_token = at,
                   !.resource_calls = @ + 1]

\* Lines 263-271: the outcome the final response decides.
Conclude(r, resp) ==
    IF resp.status_code >= 400
    THEN Raise([r EXCEPT !.last_status = resp.status_code], "ApiError",
               LogThenRaise("ERROR", {"status_code", "response"},
                            QuickBooksError(<<resp.status_code>>,
                                            <<resp.text>>)))
    ELSE Ended([r EXCEPT !.last_status = resp.status_code,
                         !.value = json(resp.text)], "ok")

\* Lines 229-249: _ensure_valid_token, and the request if no refresh is
\* needed; the task r after them.
StartRequest(r) ==
    IF NeedsRefresh(token_expiry, now, refresh_token)
    THEN BeginRefresh(r, "ensure_refresh")
    ELSE SendRequest(r, access_token, realm_id)

\* ApiRequest behind a single-flight guard: no refresh of its own while
\* another coroutine awaits one.
ApiRequestSingleFlight(t) ==
    /\ qb_connector = Connector
    /\ task[t].pc = "idle"
    /\ LET r == [IdleTask EXCEPT !.op = "api", !.entry = EntryState]
           refreshing == \E u \in Tasks \ {t} :
                            task[u].pc \in {"ensure_refresh", "retry_refresh"}
       IN  task' = [task EXCEPT ![t] =
                IF refreshing
                THEN SendRequest(r, access_token, realm_id)
                ELSE StartRequest(r)]
    /\ UNCHANGED <<creds, token_file, now, disconnect_raised, qb_connector>>

\* api_request from its call to its first await.
ApiRequest(t) ==
    /\ qb_connector = Connector
    /\ task[t].pc = "idle"
    /\ LET r == [IdleTask EXCEPT !.op = "api", !.entry = EntryState]
       IN  task' = [task EXCEPT ![t] = StartRequest(r)]
    /\ UNCHANGED <<creds, token_file, now, disconnect_raised, qb_connector>>

\* A route of routes.py (get_customers): get_qb_connector, then the
\* connector's api_request up to its first await.
RouteRequest(t) ==
    /\ task[t].pc = "idle"
    /\ LET r == [IdleTask EXCEPT !.op = "route", !.entry = EntryState]
       IN  task' = [task EXCEPT ![t] =
                IF qb_connector # Connector
                THEN Ended(r, "NotInitialized")
                ELSE IF ~is_authenticated
                THEN Ended(r, "NotConnected")
                ELSE StartRequest(r)]
    /\ UNCHANGED <<creds, token_file, now, disconnect_raised, qb_connector>>

\* HttpStatus answering an upstream API error with the upstream status.
HttpStatusPassesThrough(r) ==
    IF r.result = "NotInitialized" THEN 500
    ELSE IF r.result = "NotConnected" THEN 401
    ELSE IF r.result = "ApiError" THEN r.last_status
    ELSE IF r.exc # NoException THEN 500
    ELSE 200

\* The status the route answers with, its call r being over: the
\* HTTPException of get_qb_connector, the HTTPException(status_code=500) of
\* the handler's except Exception, or 200.
HttpStatus(r) ==
    IF r.result = "NotInitialized" THEN 500
    ELSE IF r.result = "NotConnected" THEN 401
    ELSE IF r.exc # NoException THEN 500
    ELSE 200

\* EnsureRefreshResponse dropping the access token the endpoint refused to
\* refresh.
EnsureRefreshResponseDropsToken(t) ==
    /\ task[t].pc = "ensure_refresh"
    /\ \E resp \in TokenResponses, outcome \in SaveOutcomes :
         IF resp.status_code # 200
         THEN /\ task' = [task EXCEPT ![t] = RefreshFailed(@, resp)]
              /\ access_token' = None
              /\ UNCHANGED <<refresh_token, realm_id, token_expiry, token_file>>
         ELSE /\ RefreshStore(resp.json, outcome)
              /\ task' = [task EXCEPT ![t] =
                     IF RefreshReturns(outcome)
                     THEN SendRequest(Refreshed(@, resp.json),
                                      access_token', realm_id')
                     ELSE RefreshRaised(@, resp.json)]
    /\ UNCHANGED <<now, disconnect_raised, qb_connector>>

\* The token endpoint answers the refresh _ensure_valid_token awaits.
EnsureRefreshResponse(t) ==
    /\ task[t].pc = "ensure_refresh"
    /\ \E resp \in TokenResponses, outcome \in SaveOutcomes :
         IF resp.status_code # 200
         THEN /\ task' = [task EXCEPT ![t] = RefreshFailed(@, resp)]
              /\ UNCHANGED <<creds, token_file>>
         ELSE /\ RefreshStore(resp.json, outcome)
              /\ task' = [task EXCEPT ![t] =
                     IF RefreshReturns(outcome)
                     THEN SendRequest(Refreshed(@, resp.json),
                                      access_token', realm_id')
                     ELSE RefreshRaised(@, resp.json)]
    /\ UNCHANGED <<now, disconnect_raised, qb_connector>>

\* The resource API answers the first request (lines 251-253 and 263-271).
FirstResponse(t) ==
    /\ task[t].pc = "call1"
    /\ \E resp \in ResourceResponses :
         LET r == [task[t] EXCEPT
                      !.first_status = resp.status_code,
                      !.last_status = resp.status_code,
                      !.token_data = NoTokenData,
                      !.refreshes_before_response = task[t].refreshes,
                      !.token_calls_before_response = task[t].token_calls]
         IN  task' = [task EXCEPT ![t] =
                  IF resp.status_code = 401
                  THEN BeginRefresh(r, "retry_refresh")
                  ELSE Conclude(r, resp)]
    /\ UNCHANGED <<creds, token_file, now, disconnect_raised, qb_connector>>

\* The token endpoint answers the refresh made after a 401; the request is
\* sent again with the stored access token (lines 254-261).
RetryRefreshResponse(t) ==
    /\ task[t].pc = "retry_refresh"
    /\ \E resp \in TokenResponses, outcome \in SaveOutcomes :
         IF resp.status_code # 200
         THEN /\ task' = [task EXCEPT ![t] = RefreshFailed(@, resp)]
              /\ UNCHANGED <<creds, token_file>>
         ELSE /\ RefreshStore(resp.json, outcome)
              /\ task' = [task EXCEPT ![t] =
                     IF RefreshReturns(outcome)
                     THEN [Refreshed(@, resp.json) EXCEPT
                              !.pc = "call2",
                              !.headers_token = access_token',
                              !.resource_calls = @ + 1]
                     ELSE RefreshRaised(@, resp.json)]
    /\ UNCHANGED <<now, disconnect_raised, qb_connector>>

\* RetryResponse with the 401 check applied to the retried response too.
RetryResponseRetriesAgain(t) ==
    /\ task[t].pc = "call2"
    /\ \E resp \in ResourceResponses :
         LET r == [task[t] EXCEPT !.token_data = NoTokenData,
                                  !.last_status = resp.status_code]
         IN  task' = [task EXCEPT ![t] =
                  IF resp.status_code = 401
                  THEN BeginRefresh(r, "retry_refresh")
                  ELSE Conclude(r, resp)]
    /\ UNCHANGED <<creds, token_file, now, disconnect_raised, qb_connector>>

\* The resource API answers the retried request (lines 263-271).
RetryResponse(t) ==
    /\ task[t].pc = "call2"
    /\ \E resp \in ResourceResponses :
         task' = [task EXCEPT ![t] =
             Conclude([@ EXCEPT !.token_data = NoTokenData], resp)]
    /\ UNCHANGED <<creds, token_file, now, disconnect_raised, qb_connector>>

(***************************************************************************)
(* exchange_code_for_tokens.                                               *)
(***************************************************************************)
\* Lines 100-121, up to the await of the POST.
ExchangeCode(t, realm) ==
    /\ qb_connector = Connector
    /\ task[t].pc = "idle"
    /\ task' = [task EXCEPT ![t] =
           [IdleTask EXCEPT !.op = "exchange",
                            !.pc = "exchange",
                            !.realm_arg = realm,
                            !.token_calls = 1]]
    /\ UNCHANGED <<creds, token_file, now, disconnect_raised, qb_connector>>

\* Lines 141-149, the fields being stored: _save_tokens, the logger.info
\* with realm_id and expires_in, and the return of token_data.
ExchangeStored(r, body, outcome) ==
    LET stored == [r EXCEPT !.token_data = <<body>>]
    IN  IF SaveRaises(outcome)
        THEN Raise(stored, "SaveFailed", LogTypeError)
        ELSE IF LogRaises("INFO", {"realm_id", "expires_in"})
        THEN Raise(stored, "TokensObtained", LogTypeError)
        ELSE Ended(stored, "ok")

\* Lines 123-149: the token endpoint answers the exchange.
ExchangeResponse(t) ==
    /\ task[t].pc = "exchange"
    /\ \E resp \in TokenResponses, outcome \in SaveOutcomes :
         IF resp.status_code # 200
         THEN /\ task' = [task EXCEPT ![t] =
                     Raise(@, "ExchangeFailed",
                           LogThenRaise("ERROR", {"status_code", "response"},
                                        QuickBooksError(<<>>, <<resp.text>>)))]
              /\ UNCHANGED <<creds, token_file>>
         ELSE /\ access_token' = Get(resp.json, "access_token", None)
              /\ refresh_token' = Get(resp.json, "refresh_token", None)
              /\ realm_id' = task[t].realm_arg
              /\ token_expiry' = ComputeExpiry(resp.json, now)
              /\ token_file' = SaveTokens(access_token', refresh_token',
                                          realm_id', token_expiry', outcome)
              /\ task' = [task EXCEPT ![t] =
                     ExchangeStored(@, resp.json, outcome)]
    /\ UNCHANGED <<now, disconnect_raised, qb_connector>>

(***************************************************************************)
(* The rest.                                                               *)
(***************************************************************************)
\* TOKEN_FILE.exists()
Exists(file) == file # NoFile

\* TOKEN_FILE.unlink(): <<the file after it, whether it raised>>. Unlinking a
\* file that does not exist raises FileNotFoundError.
Unlink(file) == IF file = NoFile THEN <<file, TRUE>> ELSE <<NoFile, FALSE>>

\* Disconnect without the assignment of line 400.
DisconnectKeepsRefreshToken ==
    /\ qb_connector = Connector
    /\ access_token' = None
    /\ realm_id' = None
    /\ token_expiry' = NoExpiry
    /\ LET removed == IF Exists(token_file)
                      THEN Unlink(token_file) ELSE <<token_file, FALSE>>
       IN  /\ token_file' = removed[1]
           /\ disconnect_raised' = removed[2]
    /\ UNCHANGED <<refresh_token, now, task, qb_connector>>

\* disconnect, as /disconnect calls it: if qb_connector.
Disconnect ==
    /\ qb_connector = Connector
    /\ access_token' = None
    /\ refresh_token' = None
    /\ realm_id' = None
    /\ token_expiry' = NoExpiry
    /\ LET removed == IF Exists(token_file)
                      THEN Unlink(token_file) ELSE <<token_file, FALSE>>
       IN  /\ token_file' = removed[1]
           /\ disconnect_raised' = removed[2]
    /\ UNCHANGED <<now, task, qb_connector>>

\* The caller takes the result of a finished call.
Return(t) ==
    /\ task[t].pc = "done"
    /\ task' = [task EXCEPT ![t] = IdleTask]
    /\ UNCHANGED <<creds, token_file, now, disconnect_raised, qb_connector>>

\* The process starts again: lifespan constructs a connector, whose
\* __init__ clears the four fields and calls _load_tokens. If that raises,
\* lifespan's except Exception logs it and qb_connector stays None: there is
\* no connector, and no credential set.
Restart ==
    /\ LET loaded == LoadTokens(token_file)
       IN  IF loaded[5]
           THEN /\ access_token' = None
                /\ refresh_token' = None
                /\ realm_id' = None
                /\ token_expiry' = NoExpiry
                /\ qb_connector' = None
           ELSE /\ access_token' = loaded[1]
                /\ refresh_token' = loaded[2]
                /\ realm_id' = loaded[3]
                /\ token_expiry' = loaded[4]
                /\ qb_connector' = Connector
    /\ task' = [t \in Tasks |-> IdleTask]
    /\ disconnect_raised' = FALSE
    /\ UNCHANGED <<token_file, now>>

\* Time passes.
Tick ==
    /\ now < MaxNow
    /\ now' = now + TickStep
    /\ UNCHANGED <<creds, token_file, task, disconnect_raised, qb_connector>>

\* A step of the coroutine t.
TaskStep(t) ==
    \/ ApiRequest(t)
    \/ EnsureRefreshResponse(t)
    \/ FirstResponse(t)
    \/ RetryRefreshResponse(t)
    \/ RetryResponse(t)
    \/ \E realm \in RealmIds : ExchangeCode(t, realm)
    \/ ExchangeResponse(t)
    \/ Return(t)

\* One call of the connector at a time, made by a route or directly;
\* disconnect, a restart and the clock come between its awaits.
Next ==
    \/ TaskStep("a")
    \/ RouteRequest("a")
    \/ Disconnect
    \/ Restart
    \/ Tick

Spec == Init /\ [][Next]_vars

\* Two calls of the connector in flight at a time.
NextConcurrent ==
    \/ \E t \in Tasks : TaskStep(t)
    \/ Disconnect

SpecConcurrent == Init /\ [][NextConcurrent]_vars

(***************************************************************************)
(* What a call did after its first resource response.                      *)
(***************************************************************************)
\* The calls of api_request, direct or made by a route.
ApiTasks == {t \in Tasks : task[t].op \in {"api", "route"}}

RefreshesAfterResponse(r) == r.refreshes - r.refreshes_before_response

TokenCallsAfterResponse(r) == r.token_calls - r.token_calls_before_response

\* The access token of the 200 answer the call's latest refresh received.
ProducedToken(r) == Get(r.token_data[1], "access_token", None)

(***************************************************************************)
(* C1 as stated: every api_request whose first resource call is answered    *)
(* 401 makes exactly one refresh after it and retries the resource call     *)
(* exactly once, with the access token that refresh produced; a second 401  *)
(* ends the request in an error with no further refresh or resource call.   *)
(***************************************************************************)
C1_RetriedOnceAfter401 ==
    \A t \in ApiTasks :
        (task[t].pc = "done" /\ task[t].first_status = 401) =>
            /\ RefreshesAfterResponse(task[t]) = 1
            /\ TokenCallsAfterResponse(task[t]) = 1
            /\ task[t].resource_calls = 2
            /\ task[t].last_status = 401 => task[t].result = "ApiError"

(***************************************************************************)
(* C1 as amended: after a first 401, refresh_access_token is called exactly *)
(* once. If that refresh returns, the resource call is retried exactly once *)
(* with the access token the refresh produced, and a second 401 ends the    *)
(* request in an error with no further refresh or resource call. If the     *)
(* refresh raises (no refresh token held, the token endpoint answers other  *)
(* than 200, or the write of the token file fails), the request ends in     *)
(* that error and nothing is retried.                                       *)
(***************************************************************************)
C1_RetryAfter401 ==
    \A t \in ApiTasks :
        /\ task[t].pc = "call2" =>
              /\ task[t].first_status = 401
              /\ RefreshesAfterResponse(task[t]) = 1
              /\ TokenCallsAfterResponse(task[t]) = 1
              /\ task[t].resource_calls = 2
              /\ task[t].token_data # NoTokenData
              /\ task[t].headers_token = ProducedToken(task[t])
        /\ (task[t].pc = "done" /\ task[t].first_status = 401) =>
              /\ RefreshesAfterResponse(task[t]) = 1
              /\ task[t].result \in
                     {"NoRefreshToken", "RefreshFailed", "SaveFailed",
                      "ApiError", "ok"}
              /\ task[t].result = "NoRefreshToken" =>
                     /\ TokenCallsAfterResponse(task[t]) = 0
                     /\ task[t].resource_calls = 1
                     /\ task[t].exc # NoException
              /\ task[t].result \in {"RefreshFailed", "SaveFailed"} =>
                     /\ TokenCallsAfterResponse(task[t]) = 1
                     /\ task[t].resource_calls = 1
                     /\ task[t].exc # NoException
              /\ task[t].result \in {"ApiError", "ok"} =>
                     /\ TokenCallsAfterResponse(task[t]) = 1
                     /\ task[t].resource_calls = 2
                     /\ (task[t].result = "ApiError") = (task[t].last_status >= 400)
                     /\ (task[t].result = "ApiError") = (task[t].exc # NoException)

\* A request answered 401 twice ended in an API error after one retry.
C1_Witness ==
    \E t \in ApiTasks :
        /\ task[t].pc = "done"
        /\ task[t].first_status = 401
        /\ task[t].last_status = 401
        /\ task[t].result = "ApiError"
        /\ task[t].exc # NoException
        /\ task[t].resource_calls = 2

(***************************************************************************)
(* C2 as stated: every api_request that succeeds issued exactly one         *)
(* resource call and no refresh call if the token was not expired at entry, *)
(* and exactly one refresh call, before its one resource call, if the token *)
(* was expired at entry and a refresh token was held.                       *)
(***************************************************************************)
C2_SuccessCalls ==
    \A t \in ApiTasks :
        (task[t].pc = "done" /\ task[t].result = "ok") =>
            /\ task[t].entry = "fresh" =>
                   /\ task[t].resource_calls = 1
                   /\ task[t].token_calls = 0
            /\ task[t].entry = "expired_rt" =>
                   /\ task[t].token_calls = 1
                   /\ task[t].calls_before_refresh = 0
                   /\ task[t].resource_calls = 1

(***************************************************************************)
(* C2 as amended: the same, for every api_request that succeeds without its *)
(* first resource call being answered 401.                                  *)
(***************************************************************************)
C2_SuccessCallsWithout401 ==
    \A t \in ApiTasks :
        (task[t].pc = "done" /\ task[t].result = "ok"
           /\ task[t].first_status # 401) =>
            /\ task[t].entry = "fresh" =>
                   /\ task[t].resource_calls = 1
                   /\ task[t].token_calls = 0
            /\ task[t].entry = "expired_rt" =>
                   /\ task[t].token_calls = 1
                   /\ task[t].calls_before_refresh = 0
                   /\ task[t].resource_calls = 1

\* A request that found the token expired succeeded on its first resource
\* call, after one refresh; the token it refreshed was still held.
C2_Witness ==
    \E t \in ApiTasks :
        /\ task[t].pc = "done"
        /\ task[t].result = "ok"
        /\ task[t].entry = "expired_rt"
        /\ task[t].first_status = 200
        /\ task[t].token_calls = 1
        /\ is_authenticated

(***************************************************************************)
(* C3 as stated: api_request called while the connector is not              *)
(* authenticated ends at once in the not-authenticated error, having made   *)
(* no call to the token endpoint and none to the resource API, and leaves   *)
(* the credential set as it was.                                            *)
(***************************************************************************)
C3_UnauthenticatedFailsFirst ==
    [][\A t \in Tasks :
          (task[t].pc = "idle" /\ task'[t].op = "api" /\ ~is_authenticated) =>
              /\ task'[t].pc = "done"
              /\ task'[t].result = "NotAuthenticated"
              /\ task'[t].token_calls = 0
              /\ task'[t].resource_calls = 0
              /\ creds' = creds]_vars

(***************************************************************************)
(* C4 as stated: in every reachable state access_token and realm_id are     *)
(* both present or both absent.                                             *)
(***************************************************************************)
C4_TokenAndRealmTogether == Truthy(access_token) <=> Truthy(realm_id)

(***************************************************************************)
(* C5: refresh_access_token called while no refresh token is held ends in   *)
(* the no-refresh-token error, makes no call to the token endpoint and      *)
(* leaves the credential set and the token file as they were.               *)
(***************************************************************************)
C5_NoRefreshTokenNoCall ==
    [][\A t \in Tasks :
          (task'[t].refreshes = task[t].refreshes + 1
             /\ ~Truthy(refresh_token)) =>
              /\ task'[t].pc = "done"
              /\ task'[t].result = "NoRefreshToken"
              /\ task'[t].token_calls = task[t].token_calls
              /\ creds' = creds
              /\ token_file' = token_file]_vars

\* A call of refresh_access_token ended in the no-refresh-token error.
C5_Witness ==
    \E t \in Tasks :
        /\ task[t].pc = "done"
        /\ task[t].result = "NoRefreshToken"
        /\ task[t].refreshes = 1
        /\ ~Truthy(refresh_token)

\* The coroutine t resumes with a 200 answer to a refresh in this step.
RefreshSucceeds(t) ==
    /\ task[t].pc \in {"ensure_refresh", "retry_refresh"}
    /\ task'[t].token_data # NoTokenData

(***************************************************************************)
(* C6 as stated: after a successful refresh_access_token the stored refresh *)
(* token is the one held before the call if the response carries no         *)
(* refresh_token, and the response's refresh_token if it carries one; the   *)
(* stored access token is the response's access_token.                      *)
(***************************************************************************)
C6_RefreshTokenAsBeforeCall ==
    [][\A t \in Tasks :
          RefreshSucceeds(t) =>
              LET body == task'[t].token_data[1]
              IN  /\ "refresh_token" \notin DOMAIN body =>
                         refresh_token' = task[t].data_refresh_token
                  /\ "refresh_token" \in DOMAIN body =>
                         refresh_token' = body["refresh_token"]
                  /\ access_token' = Get(body, "access_token", None)]_vars

(***************************************************************************)
(* C6 as amended: if the response carries no refresh_token, the stored      *)
(* refresh token is the one held when the response is processed, which is   *)
(* the one held before the call unless an exchange, another refresh or a    *)
(* disconnect changed it while the call awaited the token endpoint; the     *)
(* rest as stated.                                                          *)
(***************************************************************************)
C6_RefreshTokenRetained ==
    [][\A t \in Tasks :
          RefreshSucceeds(t) =>
              LET body == task'[t].token_data[1]
              IN  /\ "refresh_token" \notin DOMAIN body =>
                         refresh_token' = refresh_token
                  /\ "refresh_token" \in DOMAIN body =>
                         refresh_token' = body["refresh_token"]
                  /\ access_token' = Get(body, "access_token", None)]_vars

\* A refresh whose response carried no refresh_token has just stored a new
\* access token beside the refresh token that was held.
C6_Witness ==
    \E t \in ApiTasks :
        /\ task[t].pc = "call2"
        /\ "refresh_token" \notin DOMAIN task[t].token_data[1]
        /\ Truthy(refresh_token)
        /\ Truthy(access_token)
        /\ access_token = ProducedToken(task[t])

(***************************************************************************)
(* C7 as stated: after every exchange_code_for_tokens the token endpoint    *)
(* answered with 200, is_authenticated is true, realm_id is the caller's    *)
(* value, and token_expiry is the time of the call plus expires_in (3600 if *)
(* the response omits it) minus 60, unclamped, so that an expires_in of 60  *)
(* or less leaves a token that is_token_expired reports expired.            *)
(***************************************************************************)
C7_ExchangeAuthenticates ==
    [][\A t \in Tasks :
          (task[t].pc = "exchange" /\ task'[t].token_data # NoTokenData) =>
              LET body == task'[t].token_data[1]
                  expires_in == Get(body, "expires_in", 3600)
              IN  /\ is_authenticated'
                  /\ realm_id' = task[t].realm_arg
                  /\ token_expiry' = <<now' + expires_in - 60>>
                  /\ expires_in <= 60 => is_token_expired']_vars

(***************************************************************************)
(* C8 as stated: from a successful exchange_code_for_tokens to the next     *)
(* disconnect realm_id keeps its value (a restart of the process makes a    *)
(* new connector, and is not a step of the connection).                     *)
(***************************************************************************)
C8_RealmFixedUntilDisconnect ==
    [][(Truthy(realm_id) /\ realm_id' # realm_id) =>
           (Disconnect \/ Restart)]_vars

(***************************************************************************)
(* C8 as amended: from a successful exchange_code_for_tokens to the next    *)
(* disconnect no refresh_access_token and no api_request changes realm_id;  *)
(* a further successful exchange_code_for_tokens replaces it by the value   *)
(* its caller supplied.                                                     *)
(***************************************************************************)
C8_RealmChangedOnlyByExchange ==
    [][(Truthy(realm_id) /\ realm_id' # realm_id) =>
           \/ Disconnect
           \/ Restart
           \/ \E t \in Tasks : /\ task[t].pc = "exchange"
                               /\ task'[t].token_data # NoTokenData
                               /\ realm_id' = task[t].realm_arg]_vars

\* A request refreshed the token twice, before its first resource call and
\* after a 401, and the realm the exchange stored is still held.
C8_Witness ==
    \E t \in ApiTasks :
        /\ task[t].pc = "call2"
        /\ task[t].token_calls = 2
        /\ Truthy(realm_id)

(***************************************************************************)
(* C9: two concurrent api_request calls that both find the token expired    *)
(* with a refresh token held each make their own call to the token          *)
(* endpoint; and when the refresh of one is answered 200 after the refresh  *)
(* of the other was, the credential set holds the access token and the      *)
(* refresh token that later refresh assigns.                                *)
(***************************************************************************)
C9_EachRefreshesLastWins ==
    /\ [](\A t \in ApiTasks :
              task[t].entry = "expired_rt" => task[t].token_calls >= 1)
    /\ [][\A t, u \in Tasks :
            (/\ t # u
             /\ task[t].pc = "ensure_refresh"
             /\ task'[t].token_data # NoTokenData
             /\ task[u].op = "api"
             /\ task[u].entry = "expired_rt"
             /\ task[u].pc \in {"call1", "retry_refresh", "call2", "done"}
             /\ task[u].result # "RefreshFailed") =>
                LET body == task'[t].token_data[1]
                IN  /\ access_token' = Get(body, "access_token", None)
                    /\ refresh_token' = Get(body, "refresh_token", refresh_token)
                    /\ task'[u] = task[u]]_vars

\* Two requests found the token expired, and the refresh of each is in
\* flight at the same time.
C9_Witness ==
    \A t \in Tasks :
        /\ task[t].op = "api"
        /\ task[t].pc = "ensure_refresh"
        /\ task[t].entry = "expired_rt"
        /\ task[t].token_calls = 1

(***************************************************************************)
(* C10: disconnect, in any state, leaves access_token, refresh_token,       *)
(* realm_id and token_expiry absent, so that is_authenticated is false and  *)
(* is_token_expired true, leaves no token file, and raises nothing when     *)
(* there was no token file.                                                 *)
(***************************************************************************)
C10_DisconnectClears ==
    [][Disconnect =>
           /\ access_token' = None
           /\ refresh_token' = None
           /\ realm_id' = None
           /\ token_expiry' = NoExpiry
           /\ ~is_authenticated'
           /\ is_token_expired'
           /\ token_file' = NoFile
           /\ token_file = NoFile => ~disconnect_raised']_vars

\* A request is waiting for the resource API, and a disconnect since it was
\* sent has left no credentials and no token file.
C10_Witness ==
    /\ \E t \in ApiTasks : task[t].pc = "call1"
    /\ access_token = None
    /\ refresh_token = None
    /\ realm_id = None
    /\ token_expiry = NoExpiry
    /\ token_file = NoFile
    /\ ~disconnect_raised

(***************************************************************************)
(* C11 as stated: in every state where the token is expired and no refresh  *)
(* token is held, is_authenticated is false; and a route called in such a   *)
(* state answers that the connection is needed, with no call made to the    *)
(* resource API.                                                            *)
(***************************************************************************)
C11_ExpiredWithoutRefreshUnauthenticated ==
    /\ (qb_connector = Connector /\ is_token_expired
          /\ ~Truthy(refresh_token)) => ~is_authenticated
    /\ \A t \in Tasks :
          (task[t].op = "route" /\ task[t].entry = "expired_no_rt"
             /\ task[t].result # "NotInitialized") =>
              /\ task[t].result = "NotConnected"
              /\ task[t].resource_calls = 0

\* The coroutine t resumes with a 200 answer to its exchange or refresh in
\* this step, and the write of the token file fails.
StoresWithoutSaving(t) ==
    /\ task[t].pc \in {"exchange", "ensure_refresh", "retry_refresh"}
    /\ task'[t].token_data # NoTokenData
    /\ token_file' = CorruptFile

(***************************************************************************)
(* C12 as stated: when the write of the token file fails during             *)
(* exchange_code_for_tokens or refresh_access_token, the failure is         *)
(* absorbed: the operation raises nothing because of it, and the credential *)
(* set holds the tokens just obtained.                                      *)
(***************************************************************************)
C12_SaveFailureAbsorbed ==
    [][\A t \in Tasks :
          StoresWithoutSaving(t) =>
              LET body == task'[t].token_data[1]
              IN  /\ task'[t].result # "SaveFailed"
                  /\ access_token' = Get(body, "access_token", None)
                  /\ token_expiry' = ComputeExpiry(body, now)]_vars

(***************************************************************************)
(* C13 as stated: constructing the connector never raises because of the    *)
(* token file. With the file missing or not valid JSON, _load_tokens        *)
(* returns and the connector starts with no credentials; with a well-formed *)
(* file, _load_tokens returns with the credential set read from it.         *)
(***************************************************************************)
C13_LoadNeverRaises ==
    [][Restart =>
           /\ qb_connector' = Connector
           /\ (token_file = NoFile \/ token_file = CorruptFile) =>
                  /\ creds' = <<None, None, None, NoExpiry>>
                  /\ ~is_authenticated'
           /\ (token_file # NoFile /\ token_file # CorruptFile) =>
                  LET d == token_file[2]
                  IN  /\ access_token' = d.access_token
                      /\ refresh_token' = d.refresh_token
                      /\ realm_id' = d.realm_id
                      /\ (d.token_expiry # JsonNull =>
                             token_expiry' = <<d.token_expiry[2]>>)]_vars

(***************************************************************************)
(* C14 as stated: when the token endpoint answers exchange_code_for_tokens  *)
(* or refresh_access_token with a status other than 200, the operation      *)
(* fails with the QuickBooksError of that failure, and the error carries    *)
(* the status code and the text of the response.                            *)
(***************************************************************************)
C14_TokenErrorCarriesStatusAndBody ==
    \A t \in Tasks :
        (task[t].pc = "done"
           /\ task[t].result \in {"ExchangeFailed", "RefreshFailed"}) =>
            /\ task[t].exc.type = "QuickBooksError"
            /\ task[t].exc.status \in {<<x>> : x \in TokenStatuses \ {200}}
            /\ task[t].exc.body \in {<<x>> : x \in TokenErrorTexts}

(***************************************************************************)
(* C15 as stated: the final resource response of an api_request decides its *)
(* outcome: a status of 400 or above gives a QuickBooksError carrying that  *)
(* status and the text of the response, and a status below 400 gives the    *)
(* parsed body of the response.                                             *)
(***************************************************************************)
C15_FinalResponseDecides ==
    \A t \in ApiTasks :
        (task[t].pc = "done" /\ task[t].result \in {"ApiError", "ok"}) =>
            /\ task[t].last_status >= 400 =>
                   /\ task[t].exc.type = "QuickBooksError"
                   /\ task[t].exc.status = <<task[t].last_status>>
                   /\ task[t].exc.body \in {<<x>> : x \in ResourceTexts}
            /\ task[t].last_status < 400 =>
                   /\ task[t].exc = NoException
                   /\ task[t].value \in {json(x) : x \in ResourceTexts}

\* The finished calls made by a route.
RouteTasks == {t \in Tasks : task[t].op = "route" /\ task[t].pc = "done"}

\* A route called on a connector that is not authenticated answers 401, and
\* no call of the connector is made.
UnauthenticatedRouteAnswers401 ==
    \A t \in Tasks :
        (task[t].pc = "idle" /\ task'[t].op = "route"
           /\ qb_connector = Connector /\ ~is_authenticated) =>
            /\ task'[t].pc = "done"
            /\ HttpStatus(task'[t]) = 401
            /\ task'[t].refreshes = 0
            /\ task'[t].token_calls = 0
            /\ task'[t].resource_calls = 0

Disconnected ==
    /\ creds = <<None, None, None, NoExpiry>>
    /\ token_file = NoFile

(***************************************************************************)
(* C17 as stated: once disconnect has returned, the credential set stays    *)
(* empty and the token file absent until an exchange_code_for_tokens is     *)
(* answered, whatever call was awaiting the token endpoint when disconnect  *)
(* ran.                                                                     *)
(***************************************************************************)
C17_DisconnectedUntilExchange ==
    [][(Disconnected /\ ~Disconnected') =>
           \E t \in Tasks : /\ task[t].pc = "exchange"
                            /\ task'[t].token_data # NoTokenData]_vars

(***************************************************************************)
(* C18: an exchange_code_for_tokens or refresh_access_token the token       *)
(* endpoint answers with a status other than 200 changes none of            *)
(* access_token, refresh_token, realm_id and token_expiry and does not      *)
(* write the token file: neither the step that sends its POST nor the step  *)
(* that handles the answer changes them.                                    *)
(***************************************************************************)
C18_FailedTokenCallChangesNothing ==
    [][\A t \in Tasks :
          /\ (task'[t].token_calls = task[t].token_calls + 1) =>
                 /\ creds' = creds
                 /\ token_file' = token_file
          /\ (task[t].pc \in {"exchange", "ensure_refresh", "retry_refresh"}
                /\ task'[t].result \in {"ExchangeFailed", "RefreshFailed"}) =>
                 /\ task'[t].pc = "done"
                 /\ task'[t].exc # NoException
                 /\ creds' = creds
                 /\ token_file' = token_file]_vars

\* A refresh has failed, and the tokens and the token file the connector
\* had are still there.
C18_Witness ==
    \E t \in Tasks :
        /\ task[t].pc = "done"
        /\ task[t].result = "RefreshFailed"
        /\ is_authenticated
        /\ Truthy(refresh_token)
        /\ token_file = SaveTokens(access_token, refresh_token, realm_id,
                                   token_expiry, "ok")

\* No call of the connector is in progress.
Quiescent == \A t \in Tasks : task[t].pc \in {"idle", "done"}

\* The token file holds the record of the credential set, or there is
\* neither a file nor a credential.
FileAgrees ==
    \/ token_file = SaveTokens(access_token, refresh_token, realm_id,
                               token_expiry, "ok")
    \/ Disconnected

(***************************************************************************)
(* C19 as stated: whenever no call is in progress and no write of the token *)
(* file has failed, the file agrees with the credential set: it holds the   *)
(* same access_token, refresh_token, realm_id and token_expiry, or, after   *)
(* disconnect, does not exist; and a connector constructed on that file     *)
(* holds the same credential set.                                           *)
(***************************************************************************)
C19_FileAgreesWithMemory ==
    /\ []((qb_connector = Connector /\ Quiescent /\ token_file # CorruptFile)
             => FileAgrees)
    /\ [][(Restart /\ qb_connector = Connector /\ Quiescent
             /\ token_file # CorruptFile) =>
              /\ qb_connector' = Connector
              /\ creds' = creds]_vars

====
